---------------------------- MODULE Spec2Model ----------------------------
(***************************************************************************)
(* A model of gometalinter's driver: Run and its helpers (src/main.go) and *)
(* the command-line glue (src/unnamed/part_000).                           *)
(*                                                                         *)
(* The module holds several specifications over one set of variables:      *)
(*   SpecRun     Run from start to os.Exit, against an arbitrary producer  *)
(*               on the two channels runLinters returns                    *)
(*   SpecLinters lintersFromConfig / replaceWithMegacheck                  *)
(*   SpecFlags   the --config and --linter flag actions                    *)
(*   SpecPaths   resolvePaths over a small file system                     *)
(*   SpecFilter  the predicate built by newPathFilter                      *)
(*   SpecMega    replaceWithMegacheck, called on a list and on its result  *)
(* Each specification leaves the variables of the others at their idle     *)
(* values.                                                                 *)
(***************************************************************************)
EXTENDS Integers, Sequences, FiniteSets, TLC

VARIABLES
    \* ---- Run (src/main.go:45-80) ----
    runPaths,    \* the paths argument of Run
    config,      \* the fields of Configuration that Run and processConfig read
    pc,          \* Run's position
    status,      \* Run's local status (main.go:65)
    exitCode,    \* the argument of os.Exit, -1 while Run has not exited
    rstatus,     \* the renderer's local status (main.go:131, 144)
    called,      \* ghost: runLinters has been called
    sortAtCall,  \* ghost: Configuration.Sort when runLinters was called
    userSort,    \* ghost: Configuration.Sort as the user configured it
    validated,   \* ghost: what validateLinters returned: "unset", "nil", "error"
    renderer,    \* ghost: the renderer Run selected, "none" before
    pending,     \* what the producer has still to send: [issues, errs]
    issues,      \* the issue channel: [buf, cap, closed]
    errch,       \* the diagnostics channel: [buf, cap, closed]
    sentIssues,  \* ghost: every issue the producer has sent, in order
    sentErrs,    \* ghost: every diagnostic the producer has sent, in order
    handed,      \* ghost: every issue the renderer has received, in order
    printed,     \* the issues written to stdout, in order
    warnings,    \* the WARNING lines written to stderr, in order
    \* ---- lintersFromConfig (src/main.go:224-272) ----
    lin,         \* ghost: the configuration lintersFromConfig was called with
    lconf,       \* the configuration: [Enable, EnableAll, Fast, Disable]
    fastLinters, \* the linter names whose definition has IsFast set
    lout,        \* the map lintersFromConfig returned (name -> linter)
    lwarned,     \* the megacheck warning has been written
    lpc,         \* "ready" before the call, "done" after, "idle" elsewhere
    \* ---- the flag actions (src/unnamed/part_000:58-122) ----
    fconf,       \* Configuration: [Linters, Enable, Disable, EnableAll]
    flagLog,     \* ghost: the flags whose actions have run, in order, each
                 \* [flag, value] with the value a sequence
    flagErr,     \* an action returned an error: parsing has stopped
    \* ---- newPathFilter (src/main.go:201-214) ----
    pfSkip,      \* the skip list the filter was built from
    pfPath,      \* the path the filter is applied to
    pfResult,    \* what the filter returned: "true" or "false", "unset"
                 \* before the call
    \* ---- resolvePaths (src/main.go:161-199) ----
    fsys,        \* the file system: a set of entries [path, dir], the paths
                 \* absolute and clean
    rpPaths,     \* the path arguments
    rpSkip,      \* the skip list
    rpOut,       \* the list resolvePaths returned
    rpWarned,    \* the roots an "invalid path" warning was written for
    rpPc,        \* "ready" before the call, "done" after, "idle" elsewhere
    \* ---- replaceWithMegacheck (src/main.go:244-272) ----
    mcIn,        \* ghost: the list the first call was given
    mcEnableAll, \* the enableAll argument
    mcResults,   \* what each call returned, in order; a call after the first
                 \* is given the result of the one before
    mcWarned     \* for each call, whether it wrote the warning

runVars == <<runPaths, config, pc, status, exitCode, rstatus, called, sortAtCall,
             userSort, validated, renderer, pending, issues, errch, sentIssues, sentErrs, handed, printed, warnings>>

lintVars == <<lin, lconf, fastLinters, lout, lwarned, lpc>>

flagVars == <<fconf, flagLog, flagErr>>

filterVars == <<pfSkip, pfPath, pfResult>>

pathVars == <<fsys, rpPaths, rpSkip, rpOut, rpWarned, rpPc>>

megaVars == <<mcIn, mcEnableAll, mcResults, mcWarned>>

vars == <<runVars, lintVars, flagVars, filterVars, pathVars, megaVars>>

\* what the actions of Run leave alone: its argument and the variables of
\* the other specifications
notRun == <<runPaths, lintVars, flagVars, filterVars, pathVars, megaVars>>

\* what the actions on linters leave alone
notLint == <<runVars, flagVars, filterVars, pathVars, megaVars>>

\* what the flag actions leave alone
notFlags == <<runVars, lintVars, filterVars, pathVars, megaVars>>

\* what the path filter leaves alone
notFilter == <<runVars, lintVars, flagVars, pathVars, megaVars>>

\* what resolvePaths leaves alone
notPaths == <<runVars, lintVars, flagVars, filterVars, megaVars>>

\* what replaceWithMegacheck leaves alone
notMega == <<runVars, lintVars, flagVars, filterVars, pathVars>>

-----------------------------------------------------------------------------
(* Bounds of the Run model *)

\* the producer sends at most MaxMsgs values (issues and diagnostics together)
MaxMsgs == 3

\* the channels returned by runLinters have a capacity in 0..MaxCap
MaxCap == 1

-----------------------------------------------------------------------------
(* Small helpers *)

\* Go's status |= x on the two low bits
BitOr(a, b) ==
    LET b0 == IF a % 2 = 1 \/ b % 2 = 1 THEN 1 ELSE 0
        b1 == IF (a \div 2) % 2 = 1 \/ (b \div 2) % 2 = 1 THEN 2 ELSE 0
    IN  b0 + b1

IsPrefix(s, t) ==
    /\ Len(s) <= Len(t)
    /\ \A i \in 1..Len(s) : s[i] = t[i]

-----------------------------------------------------------------------------
(* Inputs of the Run model *)

\* Severity (the Error and Warning constants Run compares against)
Error == "error"
Warning == "warning"

\* output format templates: one that text/template parses, one it rejects
FormatInputs == {"{{.Path}}", "{{.Path"}

\* template.New("output").Parse(config.Format) returns no error
TemplateParses(format) == format = "{{.Path}}"

\* strings.Join(list, "|") compiles: for these inputs, when no element is "("
RegexpCompiles(list) == \A i \in 1..Len(list) : list[i] # "("

\* --sort values the user may have configured
SortInputs == {<<"path">>, <<"severity", "line">>}

\* the exclude pattern lists: none, one that compiles, one that does not
ExcludeInputs == {<< >>, <<"a">>, <<"(">>}

\* the include pattern lists: one that compiles, one that does not
IncludeInputs == {<<"a">>, <<"a", "(">>}

\* the enabled linters: one linter, and the three megacheck stands for
EnableInputs == {<<"vet">>, <<"staticcheck", "gosimple", "unused">>}

\* the paths Run is given: . and x/... (no x in the working directory)
RunPathInputs == { << <<".">> >>, << <<"x", "/", ".", ".", ".">> >> }

\* --skip values the user may have configured
SkipInputs == {<<"testdata">>}

ConfigInputs ==
    [Install : BOOLEAN, VendoredLinters : BOOLEAN, Update : BOOLEAN,
     JSON : BOOLEAN, Checkstyle : BOOLEAN, Errors : BOOLEAN, Vendor : BOOLEAN,
     Sort : SortInputs, Skip : SkipInputs, Format : FormatInputs,
     Exclude : ExcludeInputs, Include : IncludeInputs,
     Enable : EnableInputs, EnableAll : BOOLEAN]

Chan(cap) == [buf |-> << >>, cap |-> cap, closed |-> FALSE]

-----------------------------------------------------------------------------
(* processConfig, main.go:83-128 *)

\* mutant: the patterns are not compiled at startup
ProcessConfigFailsTemplateOnly(c) == ~TemplateParses(c.Format)

\* main.go:84-85: kingpin.FatalIfError on the template; main.go:118-124:
\* regexp.MustCompile panics on a pattern that does not compile.
ProcessConfigFails(c) ==
    \/ ~TemplateParses(c.Format)
    \/ (Len(c.Exclude) > 0 /\ ~RegexpCompiles(c.Exclude))
    \/ (Len(c.Include) > 0 /\ ~RegexpCompiles(c.Include))

\* main.go:93-101: --update is ignored (with a warning) for vendored installs
IgnoreUpdate(c) ==
    IF c.VendoredLinters /\ c.Install /\ c.Update
      THEN [c EXCEPT !.Update = FALSE] ELSE c

\* mutant: the sort key is forced without the !config.JSON check
ForceSortIgnoringJSON(c) ==
    IF c.Checkstyle THEN [c EXCEPT !.Sort = <<"path">>] ELSE c

\* main.go:102-107: force sorting by path if checkstyle mode is selected
ForceSort(c) ==
    IF c.Checkstyle /\ ~c.JSON THEN [c EXCEPT !.Sort = <<"path">>] ELSE c

\* main.go:109-117: with GO15VENDOREXPERIMENT=1 in the environment or --vendor,
\* "vendor" is appended to the skip list
SkipVendor(c, envVendor) ==
    IF envVendor \/ c.Vendor
      THEN [c EXCEPT !.Skip = Append(@, "vendor"), !.Vendor = TRUE] ELSE c

\* the configuration processConfig leaves behind when it does not fail
\* (GOGC, GOMAXPROCS and the compiled template and patterns are not state
\* of this model)
ProcessConfig(c, envVendor) == SkipVendor(ForceSort(IgnoreUpdate(c)), envVendor)

-----------------------------------------------------------------------------
(* Channels *)

\* A send can complete: there is room in the buffer, or the channel is
\* unbuffered and the receiver is waiting on it.
CanSend(ch, receiverWaiting) ==
    /\ ~ch.closed
    /\ \/ Len(ch.buf) < ch.cap
       \/ ch.cap = 0 /\ Len(ch.buf) = 0 /\ receiverWaiting

Send(ch, v) == [ch EXCEPT !.buf = Append(@, v)]

Recv(ch) == [ch EXCEPT !.buf = Tail(@)]

\* range over the channel ends: closed and drained
Drained(ch) == ch.closed /\ ch.buf = << >>

RenderPcs == {"outputToJSON", "outputToCheckstyle", "outputToConsole"}

-----------------------------------------------------------------------------
(* The producer: what runLinters leaves running behind the two channels.   *)
(* Its workers send the pending issues and diagnostics in any interleaving; *)
(* once every worker is done, both channels are closed.                    *)

ProducerSendIssue ==
    /\ called
    /\ pending.issues > 0
    /\ CanSend(issues, pc \in RenderPcs)
    /\ \E sev \in {Error, Warning} :
         LET issue == [id |-> Len(sentIssues) + 1, Severity |-> sev]
         IN  /\ issues' = Send(issues, issue)
             /\ sentIssues' = Append(sentIssues, issue)
    /\ pending' = [pending EXCEPT !.issues = @ - 1]
    /\ UNCHANGED <<notRun, config, pc, status, exitCode, rstatus, called, sortAtCall, userSort,
                   validated, renderer,
                   errch, sentErrs, handed, printed, warnings>>

ProducerSendError ==
    /\ called
    /\ pending.errs > 0
    /\ CanSend(errch, pc = "errch")
    /\ LET err == Len(sentErrs) + 1
       IN  /\ errch' = Send(errch, err)
           /\ sentErrs' = Append(sentErrs, err)
    /\ pending' = [pending EXCEPT !.errs = @ - 1]
    /\ UNCHANGED <<notRun, config, pc, status, exitCode, rstatus, called, sortAtCall, userSort,
                   validated, renderer,
                   issues, sentIssues, handed, printed, warnings>>

\* every worker is done
ProducerDone == pending.issues = 0 /\ pending.errs = 0

ProducerCloseIssues ==
    /\ called
    /\ ProducerDone
    /\ ~issues.closed
    /\ issues' = [issues EXCEPT !.closed = TRUE]
    /\ UNCHANGED <<notRun, config, pc, status, exitCode, rstatus, called, sortAtCall, userSort,
                   validated, renderer,
                   pending, errch, sentIssues, sentErrs, handed, printed,
                   warnings>>

ProducerCloseErrch ==
    /\ called
    /\ ProducerDone
    /\ ~errch.closed
    /\ errch' = [errch EXCEPT !.closed = TRUE]
    /\ UNCHANGED <<notRun, config, pc, status, exitCode, rstatus, called, sortAtCall, userSort,
                   validated, renderer,
                   pending, issues, sentIssues, sentErrs, handed, printed,
                   warnings>>

-----------------------------------------------------------------------------
(* lintersFromConfig and replaceWithMegacheck, main.go:224-272 *)

\* the longest Enable list
MaxEnable == 3

\* the longest Disable list
MaxDisable == 1

SeqsUpTo(S, n) == UNION {[1..k -> S] : k \in 0..n}

Range(seq) == {seq[i] : i \in 1..Len(seq)}

LinterNames == {"staticcheck", "gosimple", "unused", "megacheck", "vet"}

\* the IsFast classifications of the linter definitions tried
FastInputs == {{"vet"}, {"vet", "megacheck"}}

\* getLinterByName (not in src/): the linter of that name, with the IsFast of
\* its definition
GetLinterByName(name, fast) == [Name |-> name, IsFast |-> name \in fast]

\* main.go:251-264: the loop of replaceWithMegacheck over enabled[i..]
RECURSIVE MegacheckScan(_, _)
MegacheckScan(enabled, acc) ==
    IF enabled = << >> THEN acc
    ELSE LET linter == Head(enabled)
             next == CASE linter = "staticcheck" -> [acc EXCEPT !.staticcheck = TRUE]
                       [] linter = "gosimple" -> [acc EXCEPT !.gosimple = TRUE]
                       [] linter = "unused" -> [acc EXCEPT !.unused = TRUE]
                       [] linter = "megacheck" -> acc
                       [] OTHER -> [acc EXCEPT !.revised = Append(@, linter)]
         IN  MegacheckScan(Tail(enabled), next)

MegacheckScanned(enabled) ==
    MegacheckScan(enabled, [staticcheck |-> FALSE, gosimple |-> FALSE,
                            unused |-> FALSE, revised |-> << >>])

\* main.go:265: all three were seen
MegacheckApplies(enabled) ==
    LET r == MegacheckScanned(enabled)
    IN  r.staticcheck /\ r.gosimple /\ r.unused

\* mutant: megacheck is appended to the list as it was given
ReplaceWithMegacheckKeepsAll(enabled, enableAll) ==
    IF MegacheckApplies(enabled)
      THEN Append(enabled, "megacheck")
      ELSE enabled

\* main.go:244-272
ReplaceWithMegacheck(enabled, enableAll) ==
    IF MegacheckApplies(enabled)
      THEN Append(MegacheckScanned(enabled).revised, "megacheck")
      ELSE enabled

\* main.go:266-268
MegacheckWarns(enabled, enableAll) == MegacheckApplies(enabled) /\ ~enableAll

\* out[name] = linter
MapSet(map, key, value) ==
    [k \in DOMAIN map \cup {key} |-> IF k = key THEN value ELSE map[k]]

\* delete(out, key)
MapDelete(map, key) == [k \in DOMAIN map \ {key} |-> map[k]]

\* mutant: --fast is not looked at
RECURSIVE EnableLoopIgnoringFast(_, _, _, _)
EnableLoopIgnoringFast(enable, fastFlag, fast, out) ==
    IF enable = << >> THEN out
    ELSE LET name == Head(enable)
         IN  EnableLoopIgnoringFast(Tail(enable), fastFlag, fast,
                                    MapSet(out, name, GetLinterByName(name, fast)))

\* main.go:227-233: the loop over config.Enable
RECURSIVE EnableLoop(_, _, _, _)
EnableLoop(enable, fastFlag, fast, out) ==
    IF enable = << >> THEN out
    ELSE LET name == Head(enable)
             linter == GetLinterByName(name, fast)
         IN  EnableLoop(Tail(enable), fastFlag, fast,
                        IF fastFlag /\ ~linter.IsFast
                          THEN out ELSE MapSet(out, name, linter))

\* main.go:234-236: the loop over config.Disable
RECURSIVE DisableLoop(_, _)
DisableLoop(disable, out) ==
    IF disable = << >> THEN out
    ELSE DisableLoop(Tail(disable), MapDelete(out, Head(disable)))

\* main.go:224-238
LintersFromConfig ==
    /\ lpc = "ready"
    /\ LET enable == ReplaceWithMegacheck(lconf.Enable, lconf.EnableAll)
       IN  /\ lconf' = [lconf EXCEPT !.Enable = enable]
           /\ lwarned' = MegacheckWarns(lconf.Enable, lconf.EnableAll)
           /\ lout' = DisableLoop(lconf.Disable,
                                  EnableLoop(enable, lconf.Fast, fastLinters, << >>))
    /\ lpc' = "done"
    /\ UNCHANGED <<notLint, lin, fastLinters>>

LinterConfigInputs ==
    [Enable : SeqsUpTo(LinterNames, MaxEnable), EnableAll : BOOLEAN,
     Fast : BOOLEAN, Disable : SeqsUpTo(LinterNames, MaxDisable)]

InitLinters ==
    /\ lin \in LinterConfigInputs
    /\ lconf = lin
    /\ fastLinters \in FastInputs
    /\ lout = << >>
    /\ lwarned = FALSE
    /\ lpc = "ready"

NextLinters == LintersFromConfig

-----------------------------------------------------------------------------
(* The flag actions, part_000:58-122.  Strings that the code takes apart   *)
(* are sequences of one-character strings.                                 *)

\* the longest --linter value
MaxValueLen == 5

\* the number of flags on a command line
MaxFlags == 2

\* the characters of --linter values
ValueChars == {"a", ":"}

LinterValues == SeqsUpTo(ValueChars, MaxValueLen)

\* the first index of character c in s, 0 when there is none
IndexOf(s, c) ==
    IF \E i \in 1..Len(s) : s[i] = c
      THEN CHOOSE i \in 1..Len(s) : s[i] = c /\ \A j \in 1..(i - 1) : s[j] # c
      ELSE 0

\* strings.SplitN(s, c, 2), part_000:60
SplitN2(s, c) ==
    LET i == IndexOf(s, c)
    IN  IF i = 0 THEN <<s>>
        ELSE <<SubSeq(s, 1, i - 1), SubSeq(s, i + 1, Len(s))>>

\* gometalinter.ParseLinterConfigSpec (not in src/): the spec is
\* command:pattern; the result is [ok, conf]
ParseLinterConfigSpec(name, spec) ==
    LET parts == SplitN2(spec, ":")
    IN  IF Len(parts) < 2
          THEN [ok |-> FALSE, conf |-> << >>]
          ELSE [ok |-> TRUE,
                conf |-> [Command |-> parts[1], Pattern |-> parts[2]]]

\* part_000:58-72: [err, Linters] after the action on value
CliLinterOverridesResult(linters, value) ==
    LET parts == SplitN2(value, ":")
    IN  IF Len(parts) < 2 THEN [err |-> TRUE, Linters |-> linters]
        ELSE LET name == parts[1]
                 spec == parts[2]
                 parsed == ParseLinterConfigSpec(name, spec)
             IN  IF ~parsed.ok THEN [err |-> TRUE, Linters |-> linters]
                 ELSE [err |-> FALSE,
                       Linters |-> MapSet(linters, name, parsed.conf)]

\* mutant: a definition already in Configuration.Linters is kept
CliLinterOverridesKeepsFirst ==
    /\ ~flagErr
    /\ Len(flagLog) < MaxFlags
    /\ \E value \in LinterValues :
         LET r == CliLinterOverridesResult(fconf.Linters, value)
             kept == IF ~r.err /\ SplitN2(value, ":")[1] \in DOMAIN fconf.Linters
                       THEN fconf.Linters ELSE r.Linters
         IN  /\ fconf' = [fconf EXCEPT !.Linters = kept]
             /\ flagErr' = r.err
             /\ flagLog' = Append(flagLog, [flag |-> "linter", value |-> value])
    /\ UNCHANGED notFlags

\* part_000:58-72, the action of --linter
CliLinterOverrides ==
    /\ ~flagErr
    /\ Len(flagLog) < MaxFlags
    /\ \E value \in LinterValues :
         LET r == CliLinterOverridesResult(fconf.Linters, value)
         IN  /\ fconf' = [fconf EXCEPT !.Linters = r.Linters]
             /\ flagErr' = r.err
             /\ flagLog' = Append(flagLog, [flag |-> "linter", value |-> value])
    /\ UNCHANGED notFlags

\* the configuration files tried: one that cannot be opened, one that
\* defines linter "a" (as in TestSetupFlagsConfigAndLinterFlag), and one that
\* defines two linters and sets Enable and Disable
\* the files --config is given: one that cannot be opened, two that decode,
\* and typed.json, {"Enable": ["golint"], "Disable": 5}, where Decode sets
\* Enable and returns the type error of Disable
ConfigFiles ==
    { [name |-> "missing.json", ok |-> FALSE, decodes |-> FALSE,
       Linters |-> << >>,
       hasEnable |-> FALSE, Enable |-> << >>,
       hasDisable |-> FALSE, Disable |-> << >>],
      [name |-> "typed.json", ok |-> TRUE, decodes |-> FALSE,
       Linters |-> << >>,
       hasEnable |-> TRUE, Enable |-> <<"golint">>,
       hasDisable |-> FALSE, Disable |-> << >>],
      [name |-> "one.json", ok |-> TRUE, decodes |-> TRUE,
       Linters |-> MapSet(<< >>, <<"a">>,
                          [Command |-> <<"x">>, Pattern |-> << >>]),
       hasEnable |-> FALSE, Enable |-> << >>,
       hasDisable |-> FALSE, Disable |-> << >>],
      [name |-> "two.json", ok |-> TRUE, decodes |-> TRUE,
       Linters |-> MapSet(MapSet(<< >>, <<"a">>,
                                 [Command |-> <<"y">>, Pattern |-> <<"z">>]),
                          <<"a", "a">>,
                          [Command |-> <<"x">>, Pattern |-> <<"z">>]),
       hasEnable |-> TRUE, Enable |-> <<"vet", "golint", "vet">>,
       hasDisable |-> TRUE, Disable |-> <<"vet", "unused">>] }

\* json.NewDecoder(r).Decode(Configuration), part_000:80: the fields the file
\* holds are set; the entries of a map field are added to the map, each
\* replacing the entry of its key.  A field whose value has the wrong type is
\* left as it was and the other fields are still set (file.decodes tells
\* whether Decode then returns an error).
Decode(c, file) ==
    [c EXCEPT
       !.Linters = [k \in DOMAIN c.Linters \cup DOMAIN file.Linters |->
                      IF k \in DOMAIN file.Linters
                        THEN file.Linters[k] ELSE c.Linters[k]],
       !.Enable = IF file.hasEnable THEN file.Enable ELSE @,
       !.Disable = IF file.hasDisable THEN file.Disable ELSE @]

\* part_000:85-90: the first element equal to name is removed
RemoveFirst(seq, name) ==
    LET i == IndexOf(seq, name)
    IN  IF i = 0 THEN seq
        ELSE SubSeq(seq, 1, i - 1) \o SubSeq(seq, i + 1, Len(seq))

\* part_000:84-91: the loop over Configuration.Disable
RECURSIVE RemoveDisabled(_, _)
RemoveDisabled(enable, disable) ==
    IF disable = << >> THEN enable
    ELSE RemoveDisabled(RemoveFirst(enable, Head(disable)), Tail(disable))

\* part_000:74-93, the action of --config
LoadConfig ==
    /\ ~flagErr
    /\ Len(flagLog) < MaxFlags
    /\ \E file \in ConfigFiles :
         /\ IF ~file.ok
              THEN flagErr' = TRUE /\ UNCHANGED fconf
              ELSE LET c == Decode(fconf, file)
                   IN  IF ~file.decodes
                         THEN flagErr' = TRUE /\ fconf' = c
                         ELSE /\ flagErr' = FALSE
                              /\ fconf' = [c EXCEPT
                                    !.Enable = RemoveDisabled(c.Enable, c.Disable)]
         /\ flagLog' = Append(flagLog, [flag |-> "config", value |-> <<file.name>>])
    /\ UNCHANGED notFlags

\* the linter names given to --enable and --disable
FlagLinterNames == {"vet", "golint"}

\* part_000:95-104, the action of --disable
DisableAction ==
    /\ ~flagErr
    /\ Len(flagLog) < MaxFlags
    /\ \E name \in FlagLinterNames :
         /\ fconf' = [fconf EXCEPT
                         !.Enable = SelectSeq(@, LAMBDA linter : linter # name)]
         /\ flagLog' = Append(flagLog, [flag |-> "disable", value |-> <<name>>])
    /\ UNCHANGED <<notFlags, flagErr>>

\* part_000:106-109, the action of --enable
EnableAction ==
    /\ ~flagErr
    /\ Len(flagLog) < MaxFlags
    /\ \E name \in FlagLinterNames :
         /\ fconf' = [fconf EXCEPT !.Enable = Append(@, name)]
         /\ flagLog' = Append(flagLog, [flag |-> "enable", value |-> <<name>>])
    /\ UNCHANGED <<notFlags, flagErr>>

\* part_000:111-114, the action of --disable-all
DisableAllAction ==
    /\ ~flagErr
    /\ Len(flagLog) < MaxFlags
    /\ fconf' = [fconf EXCEPT !.Enable = << >>]
    /\ flagLog' = Append(flagLog, [flag |-> "disable-all", value |-> << >>])
    /\ UNCHANGED <<notFlags, flagErr>>

\* gometalinter.DefaultLinters (not in src/): the names of the known linters
DefaultLinterNames == {"vet", "golint"}

\* the orders in which a range over a map of these names may run
Orders(S) ==
    {seq \in [1..Cardinality(S) -> S] : \A x \in S : \E i \in DOMAIN seq : seq[i] = x}

\* part_000:116-122, the action of --enable-all
EnableAllAction ==
    /\ ~flagErr
    /\ Len(flagLog) < MaxFlags
    /\ \E order \in Orders(DefaultLinterNames) :
         fconf' = [fconf EXCEPT !.Enable = @ \o order, !.EnableAll = TRUE]
    /\ flagLog' = Append(flagLog, [flag |-> "enable-all", value |-> << >>])
    /\ UNCHANGED <<notFlags, flagErr>>

\* Configuration before the command line is parsed: no linter defined
InitFlags ==
    /\ fconf = [Linters |-> << >>, Enable |-> <<"vet">>, Disable |-> << >>,
                EnableAll |-> FALSE]
    /\ flagLog = << >>
    /\ flagErr = FALSE

\* the variables of the flag actions while another specification runs
IdleFlags ==
    /\ fconf = << >>
    /\ flagLog = << >>
    /\ flagErr = FALSE

NextFlags ==
    \/ LoadConfig
    \/ CliLinterOverrides
    \/ DisableAction
    \/ EnableAction
    \/ DisableAllAction
    \/ EnableAllAction

-----------------------------------------------------------------------------
(* Paths.  A path is a sequence of one-character strings; the functions of  *)
(* path/filepath and strings that main.go calls are modelled on them (Unix  *)
(* separator, no volume names).                                            *)

\* strings.HasSuffix
HasSuffix(s, suffix) ==
    /\ Len(s) >= Len(suffix)
    /\ SubSeq(s, Len(s) - Len(suffix) + 1, Len(s)) = suffix

\* strings.HasPrefix
HasPrefix(s, prefix) ==
    /\ Len(s) >= Len(prefix)
    /\ SubSeq(s, 1, Len(prefix)) = prefix

\* the last index of character c in s, 0 when there is none
LastIndexOf(s, c) ==
    IF \E i \in 1..Len(s) : s[i] = c
      THEN CHOOSE i \in 1..Len(s) : s[i] = c /\ \A j \in (i + 1)..Len(s) : s[j] # c
      ELSE 0

\* the elements of a path between its separators, empty ones included
RECURSIVE SplitSlash(_)
SplitSlash(s) ==
    LET i == IndexOf(s, "/")
    IN  IF i = 0 THEN <<s>>
        ELSE <<SubSeq(s, 1, i - 1)>> \o SplitSlash(SubSeq(s, i + 1, Len(s)))

\* strings.Join(elems, "/")
RECURSIVE JoinSlash(_)
JoinSlash(elems) ==
    IF elems = << >> THEN << >>
    ELSE IF Len(elems) = 1 THEN elems[1]
    ELSE elems[1] \o <<"/">> \o JoinSlash(Tail(elems))

DotDot == <<".", ".">>

\* filepath.Clean's pass over the elements: "" and "." are dropped, ".."
\* removes the element before it, is dropped at the root and is kept at the
\* start of a relative path
RECURSIVE CleanElems(_, _, _)
CleanElems(elems, rooted, out) ==
    IF elems = << >> THEN out
    ELSE LET e == Head(elems)
             next == IF e = << >> \/ e = <<".">> THEN out
                     ELSE IF e = DotDot
                       THEN IF out # << >> /\ out[Len(out)] # DotDot
                              THEN SubSeq(out, 1, Len(out) - 1)
                            ELSE IF rooted THEN out
                            ELSE Append(out, e)
                     ELSE Append(out, e)
         IN  CleanElems(Tail(elems), rooted, next)

\* filepath.Clean
Clean(path) ==
    LET rooted == path # << >> /\ path[1] = "/"
        out == JoinSlash(CleanElems(SplitSlash(path), rooted, << >>))
    IN  IF rooted THEN <<"/">> \o out
        ELSE IF out = << >> THEN <<".">>
        ELSE out

\* filepath.Dir
Dir(path) == Clean(SubSeq(path, 1, LastIndexOf(path, "/")))

\* the path without its trailing separators
RECURSIVE StripTrailingSlashes(_)
StripTrailingSlashes(path) ==
    IF path # << >> /\ path[Len(path)] = "/"
      THEN StripTrailingSlashes(SubSeq(path, 1, Len(path) - 1))
      ELSE path

\* filepath.Base
Base(path) ==
    IF path = << >> THEN <<".">>
    ELSE LET stripped == StripTrailingSlashes(path)
             last == SubSeq(stripped, LastIndexOf(stripped, "/") + 1, Len(stripped))
         IN  IF last = << >> THEN <<"/">> ELSE last

\* filepath.IsAbs
IsAbs(path) == HasPrefix(path, <<"/">>)

\* filepath.Join of two non-empty elements
Join(a, b) == Clean(a \o <<"/">> \o b)

-----------------------------------------------------------------------------
(* newPathFilter, main.go:201-214 *)

\* mutant: "." and ".." are filtered like any name that starts with '.'
PathFilterDots(skip, path) ==
    LET filter == Range(skip)
        base == Base(path)
    IN  IF base \in filter \/ path \in filter THEN TRUE
        ELSE base[1] \in {"_", "."}

\* the predicate newPathFilter(skip) returns, applied to path
PathFilter(skip, path) ==
    LET filter == Range(skip)
        base == Base(path)
    IN  IF base \in filter \/ path \in filter THEN TRUE
        ELSE base # <<".">> /\ base # DotDot /\ base[1] \in {"_", "."}

\* the longest path the filter is tried on
MaxPathLen == 4

\* the longest skip list the filter is built from
MaxFilterSkip == 2

PathChars == {".", "_", "/", "a"}

\* the names the skip lists of the filter are made of: a, ., .., a/a
FilterSkipNames == {<<"a">>, <<".">>, DotDot, <<"a", "/", "a">>}

ApplyPathFilter ==
    /\ pfResult = "unset"
    /\ pfResult' = IF PathFilter(pfSkip, pfPath) THEN "true" ELSE "false"
    /\ UNCHANGED <<notFilter, pfSkip, pfPath>>

InitFilter ==
    /\ pfSkip \in SeqsUpTo(FilterSkipNames, MaxFilterSkip)
    /\ pfPath \in SeqsUpTo(PathChars, MaxPathLen)
    /\ pfResult = "unset"

\* the variables of the path filter while another specification runs
IdleFilter ==
    /\ pfSkip = << >>
    /\ pfPath = << >>
    /\ pfResult = "idle"

NextFilter == ApplyPathFilter

-----------------------------------------------------------------------------
(* resolvePaths, main.go:161-199, over a small file system.  Relative paths *)
(* are resolved against the working directory /w; there are no symbolic     *)
(* links and every directory is readable.                                   *)

\* the most path arguments of one call
MaxPaths == 2

\* the longest skip list of one call
MaxSkip == 1

\* the working directory
Cwd == <<"/", "w">>

\* /m.go and, under /w: m.go a/m.go a/_m.go a/b/m.go _a/m.go b/_m.go b/a
TreeFS ==
    { [path |-> <<"/">>, dir |-> TRUE],
      [path |-> <<"/", "m", ".", "g", "o">>, dir |-> FALSE],
      [path |-> <<"/", "w">>, dir |-> TRUE],
      [path |-> <<"/", "w", "/", "m", ".", "g", "o">>, dir |-> FALSE],
      [path |-> <<"/", "w", "/", "a">>, dir |-> TRUE],
      [path |-> <<"/", "w", "/", "a", "/", "m", ".", "g", "o">>, dir |-> FALSE],
      [path |-> <<"/", "w", "/", "a", "/", "_", "m", ".", "g", "o">>, dir |-> FALSE],
      [path |-> <<"/", "w", "/", "a", "/", "b">>, dir |-> TRUE],
      [path |-> <<"/", "w", "/", "a", "/", "b", "/", "m", ".", "g", "o">>, dir |-> FALSE],
      [path |-> <<"/", "w", "/", "_", "a">>, dir |-> TRUE],
      [path |-> <<"/", "w", "/", "_", "a", "/", "m", ".", "g", "o">>, dir |-> FALSE],
      [path |-> <<"/", "w", "/", "b">>, dir |-> TRUE],
      [path |-> <<"/", "w", "/", "b", "/", "_", "m", ".", "g", "o">>, dir |-> FALSE],
      [path |-> <<"/", "w", "/", "b", "/", "a">>, dir |-> FALSE] }

\* under /w: the directory m.go with m.go/m.go, a/.a/m.go a/b/m.go a/b/a
NestedFS ==
    { [path |-> <<"/">>, dir |-> TRUE],
      [path |-> <<"/", "w">>, dir |-> TRUE],
      [path |-> <<"/", "w", "/", "m", ".", "g", "o">>, dir |-> TRUE],
      [path |-> <<"/", "w", "/", "m", ".", "g", "o", "/", "m", ".", "g", "o">>, dir |-> FALSE],
      [path |-> <<"/", "w", "/", "a">>, dir |-> TRUE],
      [path |-> <<"/", "w", "/", "a", "/", ".", "a">>, dir |-> TRUE],
      [path |-> <<"/", "w", "/", "a", "/", ".", "a", "/", "m", ".", "g", "o">>, dir |-> FALSE],
      [path |-> <<"/", "w", "/", "a", "/", "b">>, dir |-> TRUE],
      [path |-> <<"/", "w", "/", "a", "/", "b", "/", "m", ".", "g", "o">>, dir |-> FALSE],
      [path |-> <<"/", "w", "/", "a", "/", "b", "/", "a">>, dir |-> FALSE] }

\* an empty working directory
EmptyFS ==
    { [path |-> <<"/">>, dir |-> TRUE],
      [path |-> <<"/", "w">>, dir |-> TRUE] }

FileSystems == {TreeFS, NestedFS, EmptyFS}

\* the path arguments: . ./... a ./a/ a/... _a/... _a /w/a/... ../... m.go/... x/... a/b b/...
PathArgs ==
    { <<".">>,
      <<".", "/", ".", ".", ".">>,
      <<"a">>,
      <<".", "/", "a", "/">>,
      <<"a", "/", ".", ".", ".">>,
      <<"_", "a", "/", ".", ".", ".">>,
      <<"_", "a">>,
      <<"/", "w", "/", "a", "/", ".", ".", ".">>,
      <<".", ".", "/", ".", ".", ".">>,
      <<"m", ".", "g", "o", "/", ".", ".", ".">>,
      <<"x", "/", ".", ".", ".">>,
      <<"a", "/", "b">>,
      <<"b", "/", ".", ".", ".">> }

\* the names of the skip lists: a b a/b m.go .
SkipNames == { <<"a">>, <<"b">>, <<"a", "/", "b">>, <<"m", ".", "g", "o">>, <<".">> }

\* the absolute path the operating system resolves p to
Resolve(p) == IF IsAbs(p) THEN Clean(p) ELSE Clean(Cwd \o <<"/">> \o p)

\* os.Lstat: "dir", "file", or "missing" for the error
Lstat(fs, p) ==
    LET abs == Resolve(p)
    IN  IF [path |-> abs, dir |-> TRUE] \in fs THEN "dir"
        ELSE IF [path |-> abs, dir |-> FALSE] \in fs THEN "file"
        ELSE "missing"

\* the names of the entries of directory p
ReadDirNames(fs, p) ==
    LET abs == Resolve(p)
    IN  {Base(e.path) : e \in {e \in fs : e.path # abs /\ Dir(e.path) = abs}}

\* filepath.Walk(p, fn) below an existing p with the callback of
\* resolvePaths: the set of directories the callback adds.  A directory the
\* filter matches is not entered (SkipDir); a file that is not matched and
\* ends in ".go" adds its directory.
RECURSIVE Walk(_, _, _)
Walk(fs, skip, p) ==
    IF Lstat(fs, p) = "dir"
      THEN IF PathFilter(skip, p) THEN {}
           ELSE UNION {Walk(fs, skip, Join(p, name)) : name \in ReadDirNames(fs, p)}
      ELSE IF ~PathFilter(skip, p) /\ HasSuffix(p, <<".", "g", "o">>)
             THEN {Clean(Dir(p))}
           ELSE {}

\* the "/..." suffix of an argument to expand
Ellipsis == <<"/", ".", ".", ".">>

\* what one path argument adds to dirs (main.go:169-188); a root that Lstat
\* fails on adds nothing
DirsOfPath(fs, skip, path) ==
    IF HasSuffix(path, Ellipsis)
      THEN LET root == Dir(path)
           IN  IF Lstat(fs, root) = "missing" THEN {} ELSE Walk(fs, skip, root)
      ELSE {Clean(path)}

\* mutant: the directory is returned as it is
RelativePackagePathAsIs(dir) == dir

\* relativePackagePath, main.go:216-222
RelativePackagePath(dir) ==
    IF IsAbs(dir) \/ HasPrefix(dir, <<".">>) THEN dir
    ELSE <<".", "/">> \o dir

\* the byte of a character
Byte(c) ==
    CASE c = "." -> 46 [] c = "/" -> 47 [] c = "_" -> 95 [] c = "a" -> 97
      [] c = "b" -> 98 [] c = "g" -> 103 [] c = "m" -> 109 [] c = "o" -> 111
      [] c = "w" -> 119 [] c = "x" -> 120

\* s < t on Go strings: the order of the bytes
RECURSIVE StringLess(_, _)
StringLess(s, t) ==
    IF t = << >> THEN FALSE
    ELSE IF s = << >> THEN TRUE
    ELSE IF Head(s) # Head(t) THEN Byte(Head(s)) < Byte(Head(t))
    ELSE StringLess(Tail(s), Tail(t))

\* stringSet.asSlice: the elements in some order (Go fixes none; the sort
\* that follows makes the result the same for each)
RECURSIVE AsSlice(_)
AsSlice(set) ==
    IF set = {} THEN << >>
    ELSE LET x == CHOOSE x \in set : TRUE
         IN  <<x>> \o AsSlice(set \ {x})

\* x put into the sorted list before the first element greater than it
RECURSIVE Insert(_, _)
Insert(sorted, x) ==
    IF sorted = << >> THEN <<x>>
    ELSE IF StringLess(x, Head(sorted)) THEN <<x>> \o sorted
    ELSE <<Head(sorted)>> \o Insert(Tail(sorted), x)

\* sort.Strings
RECURSIVE SortStrings(_)
SortStrings(list) ==
    IF list = << >> THEN << >>
    ELSE Insert(SortStrings(Tail(list)), Head(list))

\* the list resolvePaths returns
ResolvePathsResult(fs, paths, skip) ==
    IF paths = << >> THEN << <<".">> >>
    ELSE LET dirs == UNION {DirsOfPath(fs, skip, paths[i]) : i \in 1..Len(paths)}
             slice == AsSlice(dirs)
             out == [i \in 1..Len(slice) |-> RelativePackagePath(slice[i])]
         IN  SortStrings(out)

\* the argument is expanded and Lstat fails on its root
InvalidRoot(fs, path) ==
    HasSuffix(path, Ellipsis) /\ Lstat(fs, Dir(path)) = "missing"

\* the roots resolvePaths writes "invalid path" warnings for, in order
RECURSIVE InvalidRoots(_, _)
InvalidRoots(fs, paths) ==
    IF paths = << >> THEN << >>
    ELSE (IF InvalidRoot(fs, Head(paths)) THEN <<Dir(Head(paths))>> ELSE << >>)
         \o InvalidRoots(fs, Tail(paths))

ResolvePaths ==
    /\ rpPc = "ready"
    /\ rpOut' = ResolvePathsResult(fsys, rpPaths, rpSkip)
    /\ rpWarned' = InvalidRoots(fsys, rpPaths)
    /\ rpPc' = "done"
    /\ UNCHANGED <<notPaths, fsys, rpPaths, rpSkip>>

InitPaths ==
    /\ fsys \in FileSystems
    /\ rpPaths \in SeqsUpTo(PathArgs, MaxPaths)
    /\ rpSkip \in SeqsUpTo(SkipNames, MaxSkip)
    /\ rpOut = << >>
    /\ rpWarned = << >>
    /\ rpPc = "ready"

\* the variables of resolvePaths while another specification runs
IdlePaths ==
    /\ fsys = {}
    /\ rpPaths = << >>
    /\ rpSkip = << >>
    /\ rpOut = << >>
    /\ rpWarned = << >>
    /\ rpPc = "idle"

NextPaths == ResolvePaths

-----------------------------------------------------------------------------
(* replaceWithMegacheck on its own, main.go:244-272: called on a list of    *)
(* names and then again on what it returned                                 *)

\* the longest list replaceWithMegacheck is given first
MaxEnabledLen == 6

\* the most calls in a row
MaxMegacheckCalls == 2

\* the names the lists are made of: the three megacheck stands for,
\* megacheck, and two others
MegacheckInputNames ==
    {"staticcheck", "gosimple", "unused", "megacheck", "vet", "golint"}

\* one call of replaceWithMegacheck, on the input or on the last result
ReplaceWithMegacheckCall ==
    /\ Len(mcResults) < MaxMegacheckCalls
    /\ LET enabled == IF mcResults = << >> THEN mcIn
                      ELSE mcResults[Len(mcResults)]
       IN  /\ mcResults' = Append(mcResults,
                                  ReplaceWithMegacheck(enabled, mcEnableAll))
           /\ mcWarned' = Append(mcWarned, MegacheckWarns(enabled, mcEnableAll))
    /\ UNCHANGED <<notMega, mcIn, mcEnableAll>>

InitMega ==
    /\ mcIn \in SeqsUpTo(MegacheckInputNames, MaxEnabledLen)
    /\ mcEnableAll \in BOOLEAN
    /\ mcResults = << >>
    /\ mcWarned = << >>

\* the variables of replaceWithMegacheck while another specification runs
IdleMega ==
    /\ mcIn = << >>
    /\ mcEnableAll = FALSE
    /\ mcResults = << >>
    /\ mcWarned = << >>

NextMega == ReplaceWithMegacheckCall

-----------------------------------------------------------------------------
(* Run, main.go:45-80 *)

\* main.go:46-52: --install installs the linters and returns; with vendored
\* linters configureEnvironmentForInstall is fatal when no vendor root is found
RunInstall ==
    /\ pc = "start"
    /\ config.Install
    /\ \E found \in BOOLEAN :
         pc' = IF config.VendoredLinters /\ ~found THEN "fatal" ELSE "returned"
    /\ UNCHANGED <<notRun, config, status, exitCode, rstatus, called, sortAtCall, userSort,
                   validated, renderer, pending,
                   issues, errch, sentIssues, sentErrs, handed, printed, warnings>>

\* main.go:54: configureEnvironment; getGoPath is fatal when GOPATH is unset
\* and the current user cannot be looked up (main.go:289-297)
RunConfigureEnvironment ==
    /\ pc = "start"
    /\ ~config.Install
    /\ \E ok \in BOOLEAN : pc' = IF ok THEN "processConfig" ELSE "fatal"
    /\ UNCHANGED <<notRun, config, status, exitCode, rstatus, called, sortAtCall, userSort,
                   validated, renderer, pending,
                   issues, errch, sentIssues, sentErrs, handed, printed, warnings>>

\* main.go:55.  A format that does not parse is fatal at main.go:85, before
\* the configuration is touched; a pattern that does not compile makes
\* regexp.MustCompile panic at main.go:119 or 123, after main.go:93-117 have
\* rewritten the configuration.
RunProcessConfig ==
    /\ pc = "processConfig"
    /\ IF ProcessConfigFails(config) /\ ~TemplateParses(config.Format)
         THEN pc' = "fatal" /\ UNCHANGED config
         ELSE /\ pc' = IF ProcessConfigFails(config) THEN "panic"
                       ELSE "validateLinters"
              /\ \E envVendor \in BOOLEAN :
                   config' = ProcessConfig(config, envVendor)
    /\ UNCHANGED <<notRun, status, exitCode, rstatus, called, sortAtCall, userSort,
                   validated, renderer, pending,
                   issues, errch, sentIssues, sentErrs, handed, printed, warnings>>

\* the file system Run works in
RunFS == TreeFS

\* main.go:58: the WARNING lines of resolvePaths(paths, Configuration.Skip)
ResolvePathsWarnings(paths) ==
    LET roots == InvalidRoots(RunFS, paths)
    IN  [i \in 1..Len(roots) |-> [from |-> "resolvePaths", root |-> roots[i]]]

\* main.go:60: the WARNING line of lintersFromConfig(Configuration)
LintersFromConfigWarnings(c) ==
    IF MegacheckWarns(c.Enable, c.EnableAll)
      THEN << [from |-> "replaceWithMegacheck"] >> ELSE << >>

\* main.go:58-62: resolvePaths, lintersFromConfig (which rewrites
\* Configuration.Enable), validateLinters and kingpin.FatalIfError on its
\* result
RunValidateLinters ==
    /\ pc = "validateLinters"
    /\ warnings' = warnings \o ResolvePathsWarnings(runPaths)
                            \o LintersFromConfigWarnings(config)
    /\ config' = [config EXCEPT
                    !.Enable = ReplaceWithMegacheck(@, config.EnableAll)]
    /\ \E err \in BOOLEAN :
         /\ validated' = IF err THEN "error" ELSE "nil"
         /\ pc' = IF err THEN "fatal" ELSE "runLinters"
    /\ UNCHANGED <<notRun, status, exitCode, rstatus, called, sortAtCall, userSort, renderer, pending,
                   issues, errch, sentIssues, sentErrs, handed, printed>>

\* main.go:66-72: the renderer Run selects
SelectRenderer(c) ==
    IF c.JSON THEN "outputToJSON"
    ELSE IF c.Checkstyle THEN "outputToCheckstyle"
    ELSE "outputToConsole"

\* main.go:64-72: runLinters returns the two channels, status := 0, and the
\* selected renderer starts with its own status 0
RunRunLinters ==
    /\ pc = "runLinters"
    /\ \E ci \in 0..MaxCap, ce \in 0..MaxCap :
         /\ issues' = Chan(ci)
         /\ errch' = Chan(ce)
    /\ \E ni \in 0..MaxMsgs, ne \in 0..MaxMsgs :
         /\ ni + ne <= MaxMsgs
         /\ pending' = [issues |-> ni, errs |-> ne]
    /\ called' = TRUE
    /\ sortAtCall' = config.Sort
    /\ status' = 0
    /\ rstatus' = 0
    /\ renderer' = SelectRenderer(config)
    /\ pc' = SelectRenderer(config)
    /\ UNCHANGED <<notRun, config, exitCode, userSort, validated, sentIssues, sentErrs, handed, printed,
                   warnings>>

\* mutant: --errors is ignored
ShownAlways(c, issue) == TRUE

\* main.go:133-135, 146-148: with --errors only Error issues are shown
Shown(c, issue) == ~(c.Errors /\ issue.Severity # Error)

\* main.go:132-138: one iteration of outputToConsole's range over issues
OutputToConsoleIssue ==
    /\ pc = "outputToConsole"
    /\ issues.buf # << >>
    /\ LET issue == Head(issues.buf)
       IN  /\ issues' = Recv(issues)
           /\ handed' = Append(handed, issue)
           /\ IF Shown(config, issue)
                THEN printed' = Append(printed, issue) /\ rstatus' = 1
                ELSE UNCHANGED <<printed, rstatus>>
    /\ UNCHANGED <<notRun, config, pc, status, exitCode, called, sortAtCall, userSort,
                   validated, renderer, pending,
                   errch, sentIssues, sentErrs, warnings>>

\* main.go:145-156: one iteration of outputToJSON's range over issues
OutputToJSONIssue ==
    /\ pc = "outputToJSON"
    /\ issues.buf # << >>
    /\ LET issue == Head(issues.buf)
       IN  /\ issues' = Recv(issues)
           /\ handed' = Append(handed, issue)
           /\ IF Shown(config, issue)
                THEN printed' = Append(printed, issue) /\ rstatus' = 1
                ELSE UNCHANGED <<printed, rstatus>>
    /\ UNCHANGED <<notRun, config, pc, status, exitCode, called, sortAtCall, userSort,
                   validated, renderer, pending,
                   errch, sentIssues, sentErrs, warnings>>

\* outputToCheckstyle (not in src/): it ranges over the channel it is handed;
\* what it writes and returns is not modelled beyond a status of 0 or 1
OutputToCheckstyleIssue ==
    /\ pc = "outputToCheckstyle"
    /\ issues.buf # << >>
    /\ issues' = Recv(issues)
    /\ handed' = Append(handed, Head(issues.buf))
    /\ \E s \in {0, 1} : rstatus' = s
    /\ UNCHANGED <<notRun, config, pc, status, exitCode, called, sortAtCall, userSort,
                   validated, renderer, pending,
                   errch, sentIssues, sentErrs, printed, warnings>>

\* mutant: the renderer stops reading issues once a diagnostic is waiting
RendererReturnsOnDiagnostic ==
    /\ pc \in RenderPcs
    /\ Drained(issues) \/ errch.buf # << >>
    /\ status' = BitOr(status, rstatus)
    /\ pc' = "errch"
    /\ UNCHANGED <<notRun, config, exitCode, rstatus, called, sortAtCall, userSort,
                   validated, renderer, pending, issues, errch, sentIssues,
                   sentErrs, handed, printed, warnings>>

\* main.go:67-72, 139, 158: the range ends when the channel is closed and
\* drained; the renderer returns and Run ors its status in
RendererReturns ==
    /\ pc \in RenderPcs
    /\ Drained(issues)
    /\ status' = BitOr(status, rstatus)
    /\ pc' = "errch"
    /\ UNCHANGED <<notRun, config, exitCode, rstatus, called, sortAtCall, userSort,
                   validated, renderer, pending, issues,
                   errch, sentIssues, sentErrs, handed, printed, warnings>>

\* main.go:73-76: one iteration of the range over errch
RunWarning ==
    /\ pc = "errch"
    /\ errch.buf # << >>
    /\ errch' = Recv(errch)
    /\ warnings' = Append(warnings, [from |-> "errch", err |-> Head(errch.buf)])
    /\ status' = BitOr(status, 2)
    /\ UNCHANGED <<notRun, config, pc, exitCode, rstatus, called, sortAtCall, userSort,
                   validated, renderer, pending,
                   issues, sentIssues, sentErrs, handed, printed>>

\* main.go:77-79: errch is closed and drained; os.Exit(status)
RunExit ==
    /\ pc = "errch"
    /\ Drained(errch)
    /\ exitCode' = status
    /\ pc' = "exited"
    /\ UNCHANGED <<notRun, config, status, rstatus, called, sortAtCall, userSort,
                   validated, renderer, pending, issues,
                   errch, sentIssues, sentErrs, handed, printed, warnings>>

InitRun ==
    /\ runPaths \in RunPathInputs
    /\ config \in ConfigInputs
    /\ pc = "start"
    /\ status = 0
    /\ exitCode = -1
    /\ rstatus = 0
    /\ called = FALSE
    /\ sortAtCall = << >>
    /\ userSort = config.Sort
    /\ validated = "unset"
    /\ renderer = "none"
    /\ pending = [issues |-> 0, errs |-> 0]
    /\ issues = Chan(0)
    /\ errch = Chan(0)
    /\ sentIssues = << >>
    /\ sentErrs = << >>
    /\ handed = << >>
    /\ printed = << >>
    /\ warnings = << >>

\* the variables of lintersFromConfig while another specification runs
IdleLint ==
    /\ lin = << >>
    /\ lconf = << >>
    /\ fastLinters = {}
    /\ lout = << >>
    /\ lwarned = FALSE
    /\ lpc = "idle"

NextRun ==
    \/ RunInstall
    \/ RunConfigureEnvironment
    \/ RunProcessConfig
    \/ RunValidateLinters
    \/ RunRunLinters
    \/ OutputToConsoleIssue
    \/ OutputToJSONIssue
    \/ OutputToCheckstyleIssue
    \/ RendererReturns
    \/ RunWarning
    \/ RunExit
    \/ ProducerSendIssue
    \/ ProducerSendError
    \/ ProducerCloseIssues
    \/ ProducerCloseErrch

-----------------------------------------------------------------------------
(* Specifications *)

\* the variables of Run while another specification runs
IdleRun ==
    /\ runPaths = << >>
    /\ config = << >>
    /\ pc = "idle"
    /\ status = 0
    /\ exitCode = -1
    /\ rstatus = 0
    /\ called = FALSE
    /\ sortAtCall = << >>
    /\ userSort = << >>
    /\ validated = "unset"
    /\ renderer = "none"
    /\ pending = [issues |-> 0, errs |-> 0]
    /\ issues = Chan(0)
    /\ errch = Chan(0)
    /\ sentIssues = << >>
    /\ sentErrs = << >>
    /\ handed = << >>
    /\ printed = << >>
    /\ warnings = << >>

InitRunSpec == InitRun /\ IdleLint /\ IdleFlags /\ IdleFilter /\ IdlePaths /\ IdleMega

SpecRun == InitRunSpec /\ [][NextRun]_vars

InitLintersSpec == InitLinters /\ IdleRun /\ IdleFlags /\ IdleFilter /\ IdlePaths /\ IdleMega

SpecLinters == InitLintersSpec /\ [][NextLinters]_vars

InitFlagsSpec == InitFlags /\ IdleRun /\ IdleLint /\ IdleFilter /\ IdlePaths /\ IdleMega

SpecFlags == InitFlagsSpec /\ [][NextFlags]_vars

InitFilterSpec == InitFilter /\ IdleRun /\ IdleLint /\ IdleFlags /\ IdlePaths /\ IdleMega

SpecFilter == InitFilterSpec /\ [][NextFilter]_vars

InitPathsSpec == InitPaths /\ IdleRun /\ IdleLint /\ IdleFlags /\ IdleFilter /\ IdleMega

SpecPaths == InitPathsSpec /\ [][NextPaths]_vars

InitMegaSpec ==
    InitMega /\ IdleRun /\ IdleLint /\ IdleFlags /\ IdleFilter /\ IdlePaths

SpecMega == InitMegaSpec /\ [][NextMega]_vars

-----------------------------------------------------------------------------
(* Claims about Run, checked under SpecRun *)

\* the diagnostics Run has reported as WARNING lines, in order
ReportedErrs ==
    LET lines == SelectSeq(warnings, LAMBDA w : w.from = "errch")
    IN  [i \in 1..Len(lines) |-> lines[i].err]

\* C1: diagnostics never suppress issues.  The renderer receives the issues
\* in the order they were sent and the warnings after those of the setup are
\* the diagnostics in the order they were sent, none twice; Run leaves the renderer only when every
\* issue sent has been handed to it, never aborts after runLinters was called,
\* and when it exits every issue sent has been handed to the renderer and
\* every diagnostic sent has been reported as exactly one warning.
C1_DiagnosticsNeverSuppressIssues ==
    /\ IsPrefix(handed, sentIssues)
    /\ IsPrefix(ReportedErrs, sentErrs)
    /\ called => pc \in RenderPcs \cup {"errch", "exited"}
    /\ pc \in {"errch", "exited"} => handed = sentIssues
    /\ pc = "exited" => ReportedErrs = sentErrs

\* C1 witness: Run has exited after rendering an issue and reporting a
\* diagnostic that was sent before the last issue was read
C1_Witness ==
    /\ pc = "exited"
    /\ Len(handed) >= 2
    /\ Len(ReportedErrs) >= 1

\* C2: Run completes on closure alone.  Run reaches os.Exit only after both
\* channels have been closed, and between the call of runLinters and os.Exit
\* it is never stuck: Run or the producer can always take a step.
C2_RunCompletesOnClosure ==
    /\ pc = "exited" => issues.closed /\ errch.closed
    /\ (called /\ pc # "exited") => ENABLED NextRun

\* C3: configuration errors abort the run before any job starts.  When
\* runLinters has been called the template parsed, both pattern lists
\* compiled and validateLinters returned nil; when one of them failed, Run
\* never gets past the failing step (it ends there, with a fatal exit or the
\* panic of MustCompile), runLinters is not called and no issue is rendered.
C3_ConfigErrorsAbortBeforeJobs ==
    /\ called =>
         /\ TemplateParses(config.Format)
         /\ RegexpCompiles(config.Exclude)
         /\ RegexpCompiles(config.Include)
         /\ validated = "nil"
    /\ ( \/ ~TemplateParses(config.Format)
         \/ ~RegexpCompiles(config.Exclude)
         \/ ~RegexpCompiles(config.Include) ) =>
           /\ pc \in {"start", "processConfig", "fatal", "panic", "returned"}
           /\ ~called /\ handed = << >> /\ printed = << >>
    /\ validated = "error" =>
         pc = "fatal" /\ ~called /\ handed = << >> /\ printed = << >>
    /\ pc \in {"fatal", "panic"} => ~called /\ handed = << >> /\ printed = << >>

\* C3 witness: a run whose exclude pattern does not compile has ended in the
\* panic of MustCompile
C3_Witness ==
    /\ pc = "panic"
    /\ TemplateParses(config.Format)
    /\ ~RegexpCompiles(config.Exclude)
    /\ ~config.Install

\* C4: when the checkstyle renderer renders, the sort keys in force at the
\* call of runLinters are exactly <<"path">>; the checkstyle renderer is the
\* one selected exactly when Checkstyle is set and JSON is not, and in every
\* other case (JSON set in particular, where the JSON renderer is selected)
\* the sort keys at the call are the user's.
C4_CheckstyleForcesPathSort ==
    called =>
      /\ renderer = "outputToCheckstyle" <=> (config.Checkstyle /\ ~config.JSON)
      /\ renderer = "outputToCheckstyle" => sortAtCall = <<"path">>
      /\ config.JSON => renderer = "outputToJSON"
      /\ renderer # "outputToCheckstyle" => sortAtCall = userSort

\* C4 witness: the checkstyle renderer has been handed an issue in a run
\* whose user asked for another sort order
C4_Witness ==
    /\ renderer = "outputToCheckstyle"
    /\ userSort = <<"severity", "line">>
    /\ handed # << >>

\* the issues --errors lets through
ErrorsOnly(seq) == SelectSeq(seq, LAMBDA i : i.Severity = Error)

\* C5: the exit status is in 0..3; for the console and JSON renderers the
\* printed issues are the received ones (with Errors set: the received ones
\* of severity Error) and bit 1 is set iff one was printed; bit 2 is set iff
\* a diagnostic was received.
C5_ExitStatusBits ==
    pc = "exited" =>
      /\ exitCode \in 0..3
      /\ renderer \in {"outputToConsole", "outputToJSON"} =>
           /\ printed = IF config.Errors THEN ErrorsOnly(handed) ELSE handed
           /\ (exitCode % 2 = 1) <=> (printed # << >>)
      /\ ((exitCode \div 2) % 2 = 1) <=> (ReportedErrs # << >>)

\* C5 witness: with Errors set, Run exits with status 3 after printing one
\* issue, dropping another and warning once
C5_Witness ==
    /\ pc = "exited"
    /\ exitCode = 3
    /\ config.Errors
    /\ renderer = "outputToConsole"
    /\ Len(printed) = 1
    /\ Len(handed) = 2

-----------------------------------------------------------------------------
(* Claims about lintersFromConfig, checked under SpecLinters *)

Megachecked == {"staticcheck", "gosimple", "unused"}

\* the enabled names after the megacheck substitution, as a set
EnabledAfterMegacheck(enable) ==
    IF Megachecked \subseteq Range(enable)
      THEN (Range(enable) \ (Megachecked \cup {"megacheck"})) \cup {"megacheck"}
      ELSE Range(enable)

\* C6: the names lintersFromConfig returns are the enabled names after the
\* megacheck substitution, minus (with Fast set) the names whose linter is
\* not fast, minus the names listed in Disable; each name maps to the linter
\* of that name.
C6_LintersFromConfigResult ==
    lpc = "done" =>
      LET enabled == EnabledAfterMegacheck(lin.Enable)
          slow == IF lin.Fast THEN enabled \ fastLinters ELSE {}
      IN  /\ DOMAIN lout = (enabled \ slow) \ Range(lin.Disable)
          /\ \A n \in DOMAIN lout : lout[n].Name = n
          /\ \A n \in Range(lin.Disable) : n \notin DOMAIN lout
          /\ lin.Fast => \A n \in DOMAIN lout : lout[n].IsFast

\* C6 witness: with Fast set, a call that returns a fast linter, leaves out
\* an enabled slow one and leaves out an enabled fast one named in Disable
C6_Witness ==
    /\ lpc = "done"
    /\ lin.Fast
    /\ fastLinters = {"vet", "megacheck"}
    /\ lin.Enable = <<"megacheck", "vet", "unused">>
    /\ lin.Disable = <<"megacheck">>
    /\ DOMAIN lout = {"vet"}

-----------------------------------------------------------------------------
(* Claims about replaceWithMegacheck, checked under SpecMega *)

\* the list without the three names and without megacheck, order kept
WithoutMegachecked(list) ==
    SelectSeq(list, LAMBDA n : n \notin Megachecked \cup {"megacheck"})

\* how many times name occurs in list
Occurrences(list, name) == Cardinality({i \in 1..Len(list) : list[i] = name})

\* the list call k was given
MegacheckArgument(k) == IF k = 1 THEN mcIn ELSE mcResults[k - 1]

\* C11: replaceWithMegacheck returns its input unchanged unless staticcheck,
\* gosimple and unused are all in it; when all three are, it returns the
\* other names in their order, without any staticcheck, gosimple, unused or
\* megacheck, followed by one megacheck, so that the result holds megacheck
\* exactly once and none of the three; called on its own result it returns
\* that result unchanged.
C11_MegacheckSubstitution ==
    \A k \in 1..Len(mcResults) :
        LET enabled == MegacheckArgument(k)
            result == mcResults[k]
        IN  /\ ~(Megachecked \subseteq Range(enabled)) => result = enabled
            /\ Megachecked \subseteq Range(enabled) =>
                  /\ result = WithoutMegachecked(enabled) \o <<"megacheck">>
                  /\ Occurrences(result, "megacheck") = 1
                  /\ Range(result) \cap Megachecked = {}
            /\ k > 1 => result = enabled

\* C11 witness: a list with all three, a megacheck and two other names,
\* replaced on the first call and returned as it is on the second
C11_Witness ==
    /\ mcIn = <<"vet", "staticcheck", "megacheck", "gosimple", "golint", "unused">>
    /\ mcResults = << <<"vet", "golint", "megacheck">>,
                      <<"vet", "golint", "megacheck">> >>

-----------------------------------------------------------------------------
(* Claims about the flag actions, checked under SpecFlags *)

\* the positions of ':' in a value
Colons(v) == {i \in 1..Len(v) : v[i] = ":"}

Least(S) == CHOOSE i \in S : \A j \in S : i <= j

\* a step that runs the action of a --linter flag
LinterFlagStep ==
    /\ Len(flagLog') = Len(flagLog) + 1
    /\ flagLog'[Len(flagLog')].flag = "linter"

\* what C7 says of a --linter step with value v
LinterFlagEffect(v) ==
    IF Colons(v) = {}
      THEN flagErr' /\ fconf'.Linters = fconf.Linters
    ELSE IF Cardinality(Colons(v)) >= 2
      THEN LET i == Least(Colons(v))
               j == Least(Colons(v) \ {i})
               name == SubSeq(v, 1, i - 1)
           IN  /\ ~flagErr'
               /\ DOMAIN fconf'.Linters = DOMAIN fconf.Linters \cup {name}
               /\ fconf'.Linters[name] =
                    [Command |-> SubSeq(v, i + 1, j - 1),
                     Pattern |-> SubSeq(v, j + 1, Len(v))]
               /\ \A k \in DOMAIN fconf.Linters \ {name} :
                    fconf'.Linters[k] = fconf.Linters[k]
    ELSE TRUE

\* C7: last definition wins.  The action of --linter NAME:COMMAND:PATTERN
\* sets Configuration.Linters[NAME] to that command and that pattern,
\* whatever the entry held before (a configuration file's definition
\* included), and leaves every other entry as it was; a value without ':' is
\* an error and leaves Configuration.Linters unchanged.
C7_LastDefinitionWins ==
    [][LinterFlagStep => LinterFlagEffect(flagLog'[Len(flagLog')].value)]_vars

\* C7 witness: --config one.json defined linter "a" with command "x", and
\* --linter a:a:aa after it has replaced command and pattern
C7_Witness ==
    /\ Len(flagLog) = 2
    /\ flagLog[1] = [flag |-> "config", value |-> <<"one.json">>]
    /\ flagLog[2] = [flag |-> "linter", value |-> <<"a", ":", "a", ":", "a">>]
    /\ ~flagErr
    /\ <<"a">> \in DOMAIN fconf.Linters
    /\ fconf.Linters[<<"a">>] = [Command |-> <<"a">>, Pattern |-> <<"a">>]

-----------------------------------------------------------------------------
(* Claims about resolvePaths, checked under SpecPaths *)

\* directory d is root or below it (both absolute and clean)
AtOrBelow(d, root) ==
    \/ d = root
    \/ HasPrefix(d, IF root = <<"/">> THEN root ELSE root \o <<"/">>)

\* the path of d, at or below the root, as the expansion of root spells it
Spelled(root, d) ==
    LET abs == Resolve(root)
    IN  IF d = abs THEN root
        ELSE Join(root, SubSeq(d, Len(abs) + (IF abs = <<"/">> THEN 1 ELSE 2), Len(d)))

\* the directories the expansion of root is to find: at or below the root,
\* directly holding a file ending in ".go" that the filter does not match,
\* and neither matched by the filter nor inside a matched directory
ExpansionOf(root) ==
    LET abs == Resolve(root)
        below == {e.path : e \in {e \in fsys : e.dir /\ AtOrBelow(e.path, abs)}}
        matched(x) == PathFilter(rpSkip, Spelled(root, x))
        found(d) ==
            /\ \A x \in below : AtOrBelow(d, x) => ~matched(x)
            /\ \E f \in fsys :
                  /\ ~f.dir
                  /\ f.path # <<"/">>
                  /\ Dir(f.path) = d
                  /\ HasSuffix(f.path, <<".", "g", "o">>)
                  /\ ~matched(f.path)
    IN  {RelativePackagePath(Spelled(root, d)) : d \in {d \in below : found(d)}}

\* what a path argument is to contribute to the result
ContributionOf(arg) ==
    IF HasSuffix(arg, Ellipsis) THEN ExpansionOf(Dir(arg))
    ELSE {RelativePackagePath(Clean(arg))}

\* C8: resolvePaths applies the skip filter only while expanding: an argument
\* ending in "/..." contributes exactly the directories at or below its root
\* that directly hold an unmatched ".go" file and are neither matched by the
\* filter nor inside a matched directory; an argument without "/..." is in
\* the result whatever the skip list says.
C8_ExpansionFiltersOnly ==
    (rpPc = "done" /\ rpPaths # << >>) =>
        Range(rpOut) = UNION {ContributionOf(rpPaths[i]) : i \in 1..Len(rpPaths)}

\* an element of the result is absolute or begins with "."
WellFormedPackagePath(p) == p # << >> /\ p[1] \in {"/", "."}

\* s comes before t in lexicographic order: at the first position where they
\* differ s has the smaller byte, or s is a proper prefix of t
LexBefore(s, t) ==
    \E k \in 0..Len(s) :
        /\ k <= Len(t)
        /\ SubSeq(s, 1, k) = SubSeq(t, 1, k)
        /\ \/ k = Len(s) /\ k < Len(t)
           \/ k < Len(s) /\ k < Len(t) /\ Byte(s[k + 1]) < Byte(t[k + 1])

\* C9: the list resolvePaths returns is in ascending lexicographic order and
\* holds no path twice, each element is absolute or begins with "." (a
\* relative directory that does not begin with "." is prefixed with "./"),
\* and without path arguments the list is exactly ["."].
C9_ResultSortedUniqueRelative ==
    rpPc = "done" =>
        /\ \A i \in 1..Len(rpOut) : \A j \in 1..Len(rpOut) :
              i < j => LexBefore(rpOut[i], rpOut[j])
        /\ \A i \in 1..Len(rpOut) : WellFormedPackagePath(rpOut[i])
        /\ \A i \in 1..Len(rpPaths) :
              ~HasSuffix(rpPaths[i], Ellipsis) =>
                LET dir == Clean(rpPaths[i])
                IN  IF WellFormedPackagePath(dir) THEN dir \in Range(rpOut)
                    ELSE /\ <<".", "/">> \o dir \in Range(rpOut)
                         /\ dir \notin Range(rpOut)
        /\ rpPaths = << >> => rpOut = << <<".">> >>

\* C9 witness: ./... and ./a/ on the tree: the expansion and the explicit
\* argument both reach a, and the result is . ./a ./a/b
C9_Witness ==
    /\ rpPc = "done"
    /\ fsys = TreeFS
    /\ rpPaths = << <<".", "/", ".", ".", ".">>, <<".", "/", "a", "/">> >>
    /\ rpSkip = << >>
    /\ rpOut = << <<".">>, <<".", "/", "a">>, <<".", "/", "a", "/", "b">> >>

-----------------------------------------------------------------------------
(* Claims about newPathFilter, checked under SpecFilter *)

\* the base name of a path, said without filepath.Base: "." for the empty
\* path, "/" for a path of separators only, and otherwise the longest run
\* without a separator that ends at the last character that is not one
BaseName(path) ==
    IF path = << >> THEN <<".">>
    ELSE IF \A i \in 1..Len(path) : path[i] = "/" THEN <<"/">>
    ELSE LET last == CHOOSE j \in 1..Len(path) :
                        path[j] # "/" /\ \A k \in (j + 1)..Len(path) : path[k] = "/"
             first == CHOOSE i \in 1..last :
                        /\ \A k \in i..last : path[k] # "/"
                        /\ i > 1 => path[i - 1] = "/"
         IN  SubSeq(path, first, last)

\* C10: the filter returns true iff the base name or the whole path is in
\* the skip list, or the base name starts with '_' or '.' and is neither "."
\* nor "..".
C10_PathFilterPredicate ==
    pfResult \in {"true", "false"} =>
      LET base == BaseName(pfPath)
          listed == \E i \in 1..Len(pfSkip) : pfSkip[i] = base \/ pfSkip[i] = pfPath
          hidden == base[1] \in {"_", "."} /\ base # <<".">> /\ base # DotDot
      IN  (pfResult = "true") <=> (listed \/ hidden)

\* C10 witness: ".." is let through by a filter whose skip list does not
\* name it
C10_Witness ==
    /\ pfResult = "false"
    /\ pfPath = <<"a", "/", ".", ".">>
    /\ pfSkip = <<<<"a">>, <<".">>>>

=============================================================================
